---- MODULE Spec2Model ----
(***************************************************************************)
(* fastNLP/action/trainer.py: BaseTrainer.train and its hooks, batchify,   *)
(* pad, POSTrainer.best_eval_result, and the concrete trainer classes.     *)
(*                                                                         *)
(* train() is one synchronous method; pc is its position.  Python None is  *)
(* the empty tuple, a present value v is <<v>>.  Python indices start at   *)
(* 0, TLA+ sequences at 1: sample idx of a dataset d is d[idx + 1].        *)
(* Accuracies are levels 0..MaxAcc, level 0 standing for 0.0.              *)
(***************************************************************************)
EXTENDS Integers, Sequences, FiniteSets

\* ---- bounds of the model ----
MaxEpochs == 2
MaxBatch == 2
MaxN == 2
MaxAcc == 2
MaxRuns == 2
MaxPadBatch == 2
MaxPadLen == 3
MaxWord == 1
MaxFill == 2

\* POSTrainer.__init__, line 273: self.best_accuracy = 0.0
InitialBestAccuracy == 0

None == << >>
Some(v) == <<v>>

Max(S) == CHOOSE m \in S : \A k \in S : k <= m

Count(s, c) == Cardinality({i \in DOMAIN s : s[i] = c})

Last(s) == s[Len(s)]

\* ---- trainer classes: the methods each class overrides ----
BaseTrainerCls == [name |-> "BaseTrainer", overrides |-> {}]

ToyTrainerCls ==
    [name |-> "ToyTrainer",
     overrides |-> {"prepare_input", "mode", "data_forward", "grad_backward",
                    "get_loss", "define_optimizer", "update"}]

POSTrainerCls ==
    [name |-> "POSTrainer",
     overrides |-> {"prepare_input", "data_forward", "mode", "define_optimizer",
                    "grad_backward", "update", "get_loss", "best_eval_result"}]

LanguageModelTrainerCls ==
    [name |-> "LanguageModelTrainer", overrides |-> {"prepare_input"}]

\* The hooks BaseTrainer leaves to a subclass (each raises NotImplementedError
\* in BaseTrainer).
AbstractHooks ==
    {"mode", "define_optimizer", "update", "data_forward", "grad_backward",
     "define_loss", "best_eval_result"}

\* A direct subclass of BaseTrainer that supplies the abstract hooks in S and
\* inherits prepare_input and get_loss.
Subclass(S) == [name |-> "Subclass", overrides |-> S]

TrainerClasses ==
    {BaseTrainerCls, ToyTrainerCls, POSTrainerCls, LanguageModelTrainerCls,
     Subclass(AbstractHooks)}
    \cup {Subclass(AbstractHooks \ {h}) : h \in AbstractHooks}

\* ---- data ----
\* Sample i of the pickled data: a feature-sequence of 1, 3, 2, 1, 3, 2, ...
\* words (word i + 1 throughout) and a label.
Sample(i) == [x |-> [j \in 1..(1 + ((2 * i) % 3)) |-> i + 1], y |-> i % 2]

DataSet(n) == [i \in 1..n |-> Sample(i - 1)]

Networks == {[id |-> 1, hasLoss |-> TRUE], [id |-> 2, hasLoss |-> FALSE]}

\* ---- pure functions ----
pad_le(batch, fill) ==
    LET max_length == Max({Len(batch[i]) : i \in DOMAIN batch})
    IN  [idx \in DOMAIN batch |->
            IF Len(batch[idx]) <= max_length
            THEN batch[idx] \o <<fill * (max_length - Len(batch[idx]))>>
            ELSE batch[idx]]

\* BaseTrainer.pad: a shorter sample gets ONE element appended, the product
\* fill * (max_length - len(sample)).
pad(batch, fill) ==
    LET max_length == Max({Len(batch[i]) : i \in DOMAIN batch})
    IN  [idx \in DOMAIN batch |->
            IF Len(batch[idx]) < max_length
            THEN batch[idx] \o <<fill * (max_length - Len(batch[idx]))>>
            ELSE batch[idx]]

\* RandomSampler(data): the orders in which it may yield the indices 0..n-1.
RandomSampler(n) ==
    {p \in [1..n -> 0..(n - 1)] : \A i, j \in 1..n : i # j => p[i] # p[j]}

\* Batchifier(sampler, batch_size, drop_last): the chunks it yields, in order.
Batchifier(indices, b, drop_last) ==
    LET full == Len(indices) \div b
        chunks == [k \in 1..full |-> SubSeq(indices, (k - 1) * b + 1, k * b)]
    IN  IF drop_last \/ Len(indices) % b = 0
        THEN chunks
        ELSE Append(chunks, SubSeq(indices, full * b + 1, Len(indices)))

NewIterator_m(indices, b) == Batchifier(indices, 1, TRUE)

\* train, line 81: iter(Batchifier(RandomSampler(data_train), self.batch_size, drop_last=True))
NewIterator(indices, b) == Batchifier(indices, b, TRUE)

ComputeIterations_ceil(n, b) == (n + b - 1) \div b

ComputeIterations_m(n, b) == IF n > 0 THEN (n - 1) \div b ELSE 0

\* train, line 75: iterations = len(data_train) // self.batch_size
ComputeIterations(n, b) == n \div b

batchify_m(data, indices) ==
    LET batch == [i \in 1..Len(indices) |-> data[indices[i] + 1]]
        n == Len(batch)
    IN  [x |-> pad([i \in 1..n |-> batch[i].x], 0),
         y |-> [i \in 1..n |-> batch[n + 1 - i].y]]

\* batchify, lines 194-198, for the drawn indices.
batchify(data, indices) ==
    LET batch == [i \in 1..Len(indices) |-> data[indices[i] + 1]]
    IN  [x |-> pad([i \in 1..Len(batch) |-> batch[i].x], 0),
         y |-> [i \in 1..Len(batch) |-> batch[i].y]]

best_eval_result_ge(accuracy, best) ==
    IF accuracy >= best THEN [ret |-> TRUE, best |-> accuracy]
    ELSE [ret |-> FALSE, best |-> best]

best_eval_result_always(accuracy, best) ==
    [ret |-> TRUE, best |-> IF accuracy > best THEN accuracy ELSE best]

\* POSTrainer.best_eval_result: the returned flag and the new best_accuracy.
best_eval_result(accuracy, best) ==
    IF accuracy > best THEN [ret |-> TRUE, best |-> accuracy]
    ELSE [ret |-> FALSE, best |-> best]

\* torch.Tensor(x) in POSTrainer.data_forward needs rows of one length.
Rectangular(x) == \A i, j \in DOMAIN x : Len(x[i]) = Len(x[j])

size0_m(x) == Len(x[1])

\* POSTrainer.data_forward, line 291: x.size(0), the number of rows of x.
size0(x) == Len(x)

RowAfterPad_m(sample, fill, max_length) ==
    IF Len(sample) < max_length
    THEN sample \o <<fill * (max_length - Len(sample))>>
    ELSE sample

\* pad, line 211: `sample + [...]` builds a new list and rebinds batch[idx];
\* the list object `sample`, a row of the dataset, keeps its elements.
RowAfterPad(sample, fill, max_length) == sample

\* The dataset after batchify(data) drew `indices`: batch_x holds the rows
\* data[idx][0] themselves (lines 194-195), and pad is applied to that list.
DataAfterBatchify(data, indices) ==
    LET drawnIdx == {indices[i] : i \in DOMAIN indices}
        max_length == Max({Len(data[idx + 1].x) : idx \in drawnIdx})
    IN  [j \in DOMAIN data |->
            IF (j - 1) \in drawnIdx
            THEN [x |-> RowAfterPad(data[j].x, 0, max_length), y |-> data[j].y]
            ELSE data[j]]

VARIABLES
    trainer,        \* the class of the trainer instance
    n_epochs, batch_size, validate, save_best_dev,     \* self.* from train_args
    model, iterator, loss_func, optimizer,             \* self.* of BaseTrainer
    max_len, best_accuracy,                            \* self.* of POSTrainer
    pickles,        \* data_train.pkl and data_dev.pkl under pickle_path
    pc, err,        \* position in train(); the exception that ended it
    epoch, step, iterations, data_train, data_dev,     \* locals of train()
    batch_x, batch_y, prediction,
    accuracy,       \* the accuracy validator.matrices() reports
    run,            \* number of train() calls so far
    calls,          \* the methods invoked in this run, in order
    drawn,          \* the index batches drawn in the current epoch
    accs,           \* the accuracy of each validated epoch of this run
    saved,          \* the epochs of this run whose save_model was called
    best0,          \* best_accuracy when this run started
    batch0,         \* batch_size when this run started
    pickle_path, model_saved_path,                     \* self.* from train_args
    config0,        \* the training configuration when this run started
    last_mode,      \* the argument of the latest self.mode(test=...) of this run
    hist_max,       \* the highest accuracy best_eval_result was given, or 0.0
    ever_saved,     \* save_model was called on this trainer
    pad_pc,         \* position of the caller that calls pad directly
    pad_batch,      \* the caller's list `batch`, which pad writes in place
    pad_fill,       \* the fill value of both calls
    pad_out,        \* the list `out` the first call returned (out is batch)
    pad_again,      \* the list `again` the second call returned (again is out)
    pad_args        \* the value of the argument when each call of pad began

selfVars == <<n_epochs, validate, save_best_dev, pickle_path, model_saved_path>>
padVars == <<pad_pc, pad_batch, pad_fill, pad_out, pad_again, pad_args>>
envVars == <<trainer, pickles>>

vars ==
    <<trainer, n_epochs, batch_size, validate, save_best_dev, model, iterator,
      loss_func, optimizer, max_len, best_accuracy, pickles, pc, err, epoch,
      step, iterations, data_train, data_dev, batch_x, batch_y, prediction,
      accuracy, run, calls, drawn, accs, saved, best0, batch0,
      pickle_path, model_saved_path, config0, last_mode, hist_max, ever_saved,
      pad_pc, pad_batch, pad_fill, pad_out, pad_again, pad_args>>

Overridden_m(h) == TRUE

\* Method resolution: the concrete class supplies h; otherwise BaseTrainer's
\* method runs.
Overridden(h) == h \in trainer.overrides

ValidationEnabled_m == TRUE

\* train, line 93: if self.validate
ValidationEnabled == validate

DevMissing_m == FALSE

\* train, line 94: if data_dev is None
DevMissing == data_dev = None

\* The training configuration held by the trainer (train_args, lines 37-43).
Config ==
    [epochs |-> n_epochs, batch_size |-> batch_size, validate |-> validate,
     save_best_dev |-> save_best_dev, pickle_path |-> pickle_path,
     model_saved_path |-> model_saved_path]

ModeArgument_m == TRUE

\* train, line 79: self.mode(test=False)
ModeArgument == FALSE

BestAccuracyAtTrain_m == InitialBestAccuracy

\* train, lines 66-76, assigns nothing to self.best_accuracy.
BestAccuracyAtTrain == best_accuracy

\* ---- construction ----
\* BaseTrainer.__init__ / POSTrainer.__init__
TrainerInit ==
    /\ trainer \in TrainerClasses
    /\ n_epochs \in 1..MaxEpochs
    /\ batch_size \in 1..MaxBatch
    /\ validate \in BOOLEAN
    /\ save_best_dev \in BOOLEAN
    /\ pickles \in [train : {DataSet(n) : n \in 0..MaxN},
                    dev : {None, Some(DataSet(1))}]
    \* data_dev.pkl is read by BaseTrainer.prepare_input only
    /\ "prepare_input" \in trainer.overrides => pickles.dev # None
    /\ model = None
    /\ iterator = None
    /\ loss_func = None
    /\ optimizer = None
    /\ max_len = None
    /\ best_accuracy = InitialBestAccuracy
    /\ pc = "idle"
    /\ err = "none"
    /\ epoch = 0
    /\ step = 0
    /\ iterations = 0
    /\ data_train = << >>
    /\ data_dev = None
    /\ batch_x = << >>
    /\ batch_y = << >>
    /\ prediction = None
    /\ accuracy = 0
    /\ run = 0
    /\ calls = << >>
    /\ drawn = << >>
    /\ accs = << >>
    /\ saved = << >>
    /\ best0 = 0
    /\ batch0 = batch_size
    /\ pickle_path = "./"
    /\ model_saved_path = "./saved/"
    /\ config0 = Config
    /\ last_mode = None
    /\ hist_max = 0
    /\ ever_saved = FALSE

Init ==
    /\ TrainerInit
    /\ pad_pc = "off"
    /\ pad_batch = << >>
    /\ pad_fill = 0
    /\ pad_out = << >>
    /\ pad_again = << >>
    /\ pad_args = << >>

\* ---- train() ----
Abort(e) ==
    /\ pc' = "aborted"
    /\ err' = e

\* The end of one pass of the epoch loop (line 76): the next epoch, or the
\* end of train().
AdvanceEpoch ==
    IF epoch < n_epochs
    THEN /\ epoch' = epoch + 1
         /\ pc' = "mode"
    ELSE /\ epoch' = epoch
         /\ pc' = "done"

\* train, lines 66-76: bind the model, load the data, build the validator,
\* compute the iteration count, enter the epoch loop.
Train(network) ==
    /\ pc \in {"idle", "done", "aborted"}
    /\ run < MaxRuns
    /\ run' = run + 1
    /\ model' = Some(network)
    /\ calls' = <<"prepare_input">>
    /\ drawn' = << >>
    /\ accs' = << >>
    /\ saved' = << >>
    /\ best0' = best_accuracy
    /\ best_accuracy' = BestAccuracyAtTrain
    /\ batch0' = batch_size
    /\ config0' = Config
    /\ last_mode' = None
    /\ step' = 0
    /\ batch_x' = << >>
    /\ batch_y' = << >>
    /\ prediction' = None
    /\ accuracy' = 0
    /\ IF trainer.name = "LanguageModelTrainer"
       THEN \* prepare_input returns None: the unpacking of line 67 fails
            /\ Abort("TypeError")
            /\ data_train' = << >>
            /\ data_dev' = None
            /\ iterations' = 0
            /\ epoch' = 0
       ELSE /\ data_train' = pickles.train
            /\ data_dev' = IF Overridden("prepare_input")
                            THEN Some(pickles.train)
                            ELSE pickles.dev
            /\ iterations' = ComputeIterations(Len(pickles.train), batch_size)
            /\ err' = "none"
            /\ IF 1 <= n_epochs
               THEN epoch' = 1 /\ pc' = "mode"
               ELSE epoch' = 0 /\ pc' = "done"
    /\ UNCHANGED <<envVars, selfVars, batch_size, iterator, loss_func,
                   optimizer, max_len, padVars,
                   hist_max, ever_saved>>

\* train, line 79: self.mode(test=False)
Mode ==
    /\ pc = "mode"
    /\ calls' = Append(calls, "mode")
    /\ last_mode' = Some(ModeArgument)
    /\ IF Overridden("mode")
       THEN pc' = "define_optimizer" /\ err' = err
       ELSE Abort("NotImplementedError")
    /\ UNCHANGED <<envVars, selfVars, batch_size, model, iterator, loss_func,
                   optimizer, max_len, best_accuracy, epoch, step, iterations,
                   data_train, data_dev, batch_x, batch_y, prediction,
                   accuracy, run, drawn, accs, saved, best0, batch0, padVars,
                   config0, hist_max, ever_saved>>

\* train, line 80: self.define_optimizer()
DefineOptimizer ==
    /\ pc = "define_optimizer"
    /\ calls' = Append(calls, "define_optimizer")
    /\ IF Overridden("define_optimizer")
       THEN /\ optimizer' = Some("SGD")
            /\ pc' = "iterator"
            /\ err' = err
       ELSE /\ optimizer' = optimizer
            /\ Abort("NotImplementedError")
    /\ UNCHANGED <<envVars, selfVars, batch_size, model, iterator, loss_func,
                   max_len, best_accuracy, epoch, step, iterations,
                   data_train, data_dev, batch_x, batch_y, prediction,
                   accuracy, run, drawn, accs, saved, best0, batch0, padVars,
                   config0, last_mode, hist_max, ever_saved>>

\* train, lines 81 and 84: a fresh batch iterator over a fresh permutation;
\* enter the step loop.
MakeIterator ==
    /\ pc = "iterator"
    /\ \E p \in RandomSampler(Len(data_train)) :
          iterator' = Some(NewIterator(p, batch_size))
    /\ calls' = Append(calls, "Batchifier")
    /\ drawn' = << >>
    /\ step' = 0
    /\ pc' = IF 0 < iterations THEN "batchify" ELSE "validate"
    /\ UNCHANGED <<envVars, selfVars, batch_size, model, loss_func, optimizer,
                   max_len, best_accuracy, err, epoch, iterations,
                   data_train, data_dev, batch_x, batch_y, prediction,
                   accuracy, run, accs, saved, best0, batch0, padVars,
                   config0, last_mode, hist_max, ever_saved>>

\* train, line 85: batch_x, batch_y = self.batchify(data_train)
Batchify ==
    /\ pc = "batchify"
    /\ calls' = Append(calls, "batchify")
    /\ IF iterator[1] = << >>
       THEN \* next() on an exhausted iterator
            /\ Abort("StopIteration")
            /\ UNCHANGED <<iterator, batch_x, batch_y, drawn, data_train>>
       ELSE LET indices == Head(iterator[1])
                b == batchify(data_train, indices)
            IN  /\ iterator' = Some(Tail(iterator[1]))
                /\ batch_x' = b.x
                /\ batch_y' = b.y
                /\ drawn' = Append(drawn, indices)
                /\ data_train' = DataAfterBatchify(data_train, indices)
                /\ pc' = "data_forward"
                /\ err' = err
    /\ UNCHANGED <<envVars, selfVars, batch_size, model, loss_func, optimizer,
                   max_len, best_accuracy, epoch, step, iterations,
                   data_dev, prediction, accuracy, run, accs,
                   saved, best0, batch0, padVars,
                   config0, last_mode, hist_max, ever_saved>>

\* train, line 87: prediction = self.data_forward(network, batch_x)
DataForward ==
    /\ pc = "data_forward"
    /\ calls' = Append(calls, "data_forward")
    /\ IF ~Overridden("data_forward")
       THEN /\ Abort("NotImplementedError")
            /\ UNCHANGED <<batch_size, max_len, prediction>>
       ELSE IF trainer.name = "POSTrainer"
       THEN IF Rectangular(batch_x)
            THEN /\ batch_size' = size0(batch_x)
                 /\ max_len' = Some(Len(batch_x[1]))
                 /\ prediction' = Some(Len(batch_x))
                 /\ pc' = "get_loss"
                 /\ err' = err
            ELSE \* torch.Tensor of rows of different lengths
                 /\ Abort("ValueError")
                 /\ UNCHANGED <<batch_size, max_len, prediction>>
       ELSE /\ prediction' = Some(Len(batch_x))
            /\ pc' = "get_loss"
            /\ err' = err
            /\ UNCHANGED <<batch_size, max_len>>
    /\ UNCHANGED <<envVars, selfVars, model, iterator, loss_func, optimizer,
                   best_accuracy, epoch, step, iterations, data_train,
                   data_dev, batch_x, batch_y, accuracy, run, drawn, accs,
                   saved, best0, batch0, padVars,
                   config0, last_mode, hist_max, ever_saved>>

\* train, line 89: loss = self.get_loss(prediction, batch_y)
GetLoss ==
    /\ pc = "get_loss"
    /\ IF trainer.name = "ToyTrainer"
       THEN \* ToyTrainer.get_loss: no loss_func
            /\ calls' = Append(calls, "get_loss")
            /\ loss_func' = loss_func
            /\ pc' = "grad_backward"
            /\ err' = err
       ELSE IF loss_func # None
       THEN /\ calls' = Append(calls, "get_loss")
            /\ loss_func' = loss_func
            /\ pc' = "grad_backward"
            /\ err' = err
       ELSE IF model[1].hasLoss
       THEN /\ calls' = Append(calls, "get_loss")
            /\ loss_func' = Some([src |-> "model.loss", net |-> model[1].id])
            /\ pc' = "grad_backward"
            /\ err' = err
       ELSE /\ calls' = calls \o <<"get_loss", "define_loss">>
            /\ IF Overridden("define_loss")
               THEN /\ loss_func' = Some([src |-> "define_loss", net |-> 0])
                    /\ pc' = "grad_backward"
                    /\ err' = err
               ELSE /\ loss_func' = loss_func
                    /\ Abort("NotImplementedError")
    /\ UNCHANGED <<envVars, selfVars, batch_size, model, iterator, optimizer,
                   max_len, best_accuracy, epoch, step, iterations,
                   data_train, data_dev, batch_x, batch_y, prediction,
                   accuracy, run, drawn, accs, saved, best0, batch0, padVars,
                   config0, last_mode, hist_max, ever_saved>>

GradBackward_m ==
    /\ pc = "grad_backward"
    /\ pc' = "update"
    /\ UNCHANGED <<envVars, selfVars, batch_size, model, iterator, loss_func,
                   optimizer, max_len, best_accuracy, epoch, step, iterations,
                   data_train, data_dev, batch_x, batch_y, prediction, err,
                   accuracy, run, drawn, accs, saved, best0, batch0, padVars,
                   calls, config0, last_mode, hist_max, ever_saved>>

\* train, line 90: self.grad_backward(loss)
GradBackward ==
    /\ pc = "grad_backward"
    /\ calls' = Append(calls, "grad_backward")
    /\ IF Overridden("grad_backward")
       THEN pc' = "update" /\ err' = err
       ELSE Abort("NotImplementedError")
    /\ UNCHANGED <<envVars, selfVars, batch_size, model, iterator, loss_func,
                   optimizer, max_len, best_accuracy, epoch, step, iterations,
                   data_train, data_dev, batch_x, batch_y, prediction,
                   accuracy, run, drawn, accs, saved, best0, batch0, padVars,
                   config0, last_mode, hist_max, ever_saved>>

Update_m ==
    /\ pc = "update"
    /\ calls' = Append(calls, "update")
    /\ IF Overridden("update")
       THEN /\ step' = step + 1
            /\ pc' = "validate"
            /\ err' = err
       ELSE /\ step' = step
            /\ Abort("NotImplementedError")
    /\ UNCHANGED <<envVars, selfVars, batch_size, model, iterator, loss_func,
                   optimizer, max_len, best_accuracy, epoch, iterations,
                   data_train, data_dev, batch_x, batch_y, prediction,
                   accuracy, run, drawn, accs, saved, best0, batch0, padVars,
                   config0, last_mode, hist_max, ever_saved>>

\* train, lines 91 and 84: self.update(); the next step, or the end of the
\* step loop.
Update ==
    /\ pc = "update"
    /\ calls' = Append(calls, "update")
    /\ IF Overridden("update")
       THEN /\ step' = step + 1
            /\ pc' = IF step + 1 < iterations THEN "batchify" ELSE "validate"
            /\ err' = err
       ELSE /\ step' = step
            /\ Abort("NotImplementedError")
    /\ UNCHANGED <<envVars, selfVars, batch_size, model, iterator, loss_func,
                   optimizer, max_len, best_accuracy, epoch, iterations,
                   data_train, data_dev, batch_x, batch_y, prediction,
                   accuracy, run, drawn, accs, saved, best0, batch0, padVars,
                   config0, last_mode, hist_max, ever_saved>>

\* train, lines 93-96: the validation point of the epoch.
Validate ==
    /\ pc = "validate"
    /\ IF ~ValidationEnabled
       THEN /\ AdvanceEpoch
            /\ UNCHANGED <<err, accuracy, calls, accs>>
       ELSE IF DevMissing
       THEN /\ Abort("RuntimeError")
            /\ UNCHANGED <<epoch, accuracy, calls, accs>>
       ELSE \* validator.test(network): the tester evaluates and caches
            /\ \E a \in 0..MaxAcc :
                  /\ accuracy' = a
                  /\ accs' = Append(accs, a)
            /\ calls' = Append(calls, "validator.test")
            /\ pc' = "save_best"
            /\ UNCHANGED <<err, epoch>>
    /\ UNCHANGED <<envVars, selfVars, batch_size, model, iterator, loss_func,
                   optimizer, max_len, best_accuracy, step, iterations,
                   data_train, data_dev, batch_x, batch_y, prediction,
                   run, drawn, saved, best0, batch0, padVars,
                   config0, last_mode, hist_max, ever_saved>>

\* train, lines 98-103: save the model when it is the best on dev; report.
SaveBest ==
    /\ pc = "save_best"
    /\ IF ~save_best_dev
       THEN /\ calls' = Append(calls, "show_matrices")
            /\ AdvanceEpoch
            /\ UNCHANGED <<err, best_accuracy, saved, hist_max, ever_saved>>
       ELSE IF ~Overridden("best_eval_result")
       THEN /\ calls' = Append(calls, "best_eval_result")
            /\ Abort("NotImplementedError")
            /\ UNCHANGED <<epoch, best_accuracy, saved, hist_max, ever_saved>>
       ELSE LET r == best_eval_result(accuracy, best_accuracy)
            IN  /\ best_accuracy' = r.best
                /\ hist_max' = Max({hist_max, accuracy})
                /\ ever_saved' = (ever_saved \/ r.ret)
                /\ IF r.ret
                   THEN /\ calls' = calls \o <<"best_eval_result", "save_model",
                                                "show_matrices">>
                        /\ saved' = Append(saved, epoch)
                   ELSE /\ calls' = calls \o <<"best_eval_result",
                                                "show_matrices">>
                        /\ saved' = saved
                /\ AdvanceEpoch
                /\ err' = err
    /\ UNCHANGED <<envVars, selfVars, batch_size, model, iterator, loss_func,
                   optimizer, max_len, step, iterations, data_train, data_dev,
                   batch_x, batch_y, prediction, accuracy, run, drawn, accs,
                   best0, batch0, padVars,
                   config0, last_mode>>

Next ==
    \/ \E network \in Networks : Train(network)
    \/ Mode
    \/ DefineOptimizer
    \/ MakeIterator
    \/ Batchify
    \/ DataForward
    \/ GetLoss
    \/ GradBackward
    \/ Update
    \/ Validate
    \/ SaveBest

Spec == Init /\ [][Next]_vars

\* ---- BaseTrainer.pad called directly ----
\* Feature-sequences of up to MaxPadLen words, and non-empty batches of them
\* (a batch holds batch_size > 0 samples).
PadRows == {[j \in 1..n |-> w] : n \in 0..MaxPadLen, w \in 0..MaxWord}

PadBatches == UNION {[1..k -> PadRows] : k \in 1..MaxPadBatch}

PadInit ==
    /\ TrainerInit
    /\ trainer = BaseTrainerCls
    /\ n_epochs = 1
    /\ batch_size = 1
    /\ ~validate
    /\ ~save_best_dev
    /\ pickles = [train |-> DataSet(0), dev |-> None]
    /\ pad_pc = "ready"
    /\ pad_batch \in PadBatches
    /\ pad_fill \in 0..MaxFill
    /\ pad_out = << >>
    /\ pad_again = << >>
    /\ pad_args = << >>

trainVars ==
    <<trainer, n_epochs, batch_size, validate, save_best_dev, model, iterator,
      loss_func, optimizer, max_len, best_accuracy, pickles, pc, err, epoch,
      step, iterations, data_train, data_dev, batch_x, batch_y, prediction,
      accuracy, run, calls, drawn, accs, saved, best0, batch0,
      pickle_path, model_saved_path, config0, last_mode, hist_max, ever_saved>>

\* out = BaseTrainer.pad(batch, fill): pad writes the rows into the list it
\* is given and returns that list, so afterwards out is batch.
PadCall ==
    /\ pad_pc = "ready"
    /\ pad_args' = Append(pad_args, pad_batch)
    /\ pad_out' = pad(pad_batch, pad_fill)
    /\ pad_batch' = pad_out'
    /\ pad_pc' = "padded"
    /\ UNCHANGED <<trainVars, pad_fill, pad_again>>

\* again = BaseTrainer.pad(out, fill): the same list once more, so afterwards
\* again is out is batch.
PadAgain ==
    /\ pad_pc = "padded"
    /\ pad_args' = Append(pad_args, pad_out)
    /\ pad_again' = pad(pad_out, pad_fill)
    /\ pad_out' = pad_again'
    /\ pad_batch' = pad_again'
    /\ pad_pc' = "repadded"
    /\ UNCHANGED <<trainVars, pad_fill>>

PadNext ==
    \/ PadCall
    \/ PadAgain

PadSpec == PadInit /\ [][PadNext]_vars

\* ---- properties ----
\* The batch as it was when the first call of pad began.
PadInput == pad_args[1]

\* The value the first call of pad returned, which the second call was given.
PadFirstResult == pad_args[2]

MaxLength(batch) == Max({Len(batch[i]) : i \in DOMAIN batch})

Uniform(batch) == \A i, j \in DOMAIN batch : Len(batch[i]) = Len(batch[j])

\* C1: pad returns every sequence at the maximum input length, the original
\* sequence kept as a prefix and only copies of the fill value appended.
C1_PadToMaxLength ==
    (pad_pc = "padded") =>
        /\ DOMAIN pad_out = DOMAIN PadInput
        /\ \A i \in DOMAIN PadInput :
              /\ Len(pad_out[i]) = MaxLength(PadInput)
              /\ \A j \in 1..Len(pad_out[i]) :
                    IF j <= Len(PadInput[i])
                    THEN pad_out[i][j] = PadInput[i][j]
                    ELSE pad_out[i][j] = pad_fill

\* C9: padding the result of pad again with the same fill value returns that
\* result unchanged: the second call returns the value the first returned.
C9_PadIdempotent == (pad_pc = "repadded") => (pad_again = PadFirstResult)

\* C10: a batch whose sequences all have the same length is returned with
\* every sequence unchanged, for any fill value.
C10_UniformUnchanged ==
    (pad_pc = "padded" /\ Uniform(PadInput)) => (pad_out = PadInput)

C10_Witness ==
    /\ pad_pc = "padded"
    /\ Len(PadInput) = 2
    /\ Uniform(PadInput)
    /\ Len(PadInput[1]) = 2
    /\ PadInput[1] # PadInput[2]
    /\ pad_out = pad_batch
    /\ pad_fill = 1

\* The sample indices used by the batches drawn so far in the current epoch.
Used == UNION {{drawn[k][i] : i \in DOMAIN drawn[k]} : k \in DOMAIN drawn}

StepCalls == {"batchify", "data_forward", "get_loss", "grad_backward", "update"}

HasBestEval == "best_eval_result" \in trainer.overrides

\* C2: a run of train() that raises no error ends after exactly E epochs,
\* having performed exactly E * floor(N / B) training steps, each one batch
\* draw, one data_forward, one get_loss, one grad_backward and one update.
\* No run goes past E epochs or past that number of steps.
C2_StepsAtCompletion ==
    LET total == n_epochs * (Len(data_train) \div batch0)
    IN  /\ (run >= 1) =>
              /\ epoch <= n_epochs
              /\ Count(calls, "mode") <= n_epochs
              /\ \A h \in StepCalls : Count(calls, h) <= total
        /\ (pc = "done") =>
              /\ epoch = n_epochs
              /\ Count(calls, "mode") = n_epochs
              /\ \A h \in StepCalls : Count(calls, h) = total

C2_Witness ==
    /\ pc = "done"
    /\ n_epochs = 2
    /\ Len(data_train) = 2
    /\ batch0 = 1
    /\ Count(calls, "update") = 4

\* C3: with validate false no run of train() calls validator.test,
\* best_eval_result or save_model, whatever save_best_dev is, and the running
\* best metric stays as it was.
C3_NoValidationWhenDisabled ==
    (run >= 1 /\ ~validate) =>
        /\ Count(calls, "validator.test") = 0
        /\ Count(calls, "best_eval_result") = 0
        /\ Count(calls, "save_model") = 0
        /\ saved = << >>
        /\ best_accuracy = best0

C3_Witness ==
    /\ pc = "done"
    /\ ~validate
    /\ save_best_dev
    /\ n_epochs = 2
    /\ trainer = POSTrainerCls
    /\ Count(calls, "update") = 4

\* C4: with validate and save_best_dev enabled, the end of an epoch persists
\* the model if and only if the accuracy the validator reported for the epoch
\* is strictly greater than the running best; a save makes that accuracy the
\* running best, a tie or a lower accuracy saves nothing and leaves it.
C4_SaveIffStrictlyBetter ==
    [][(pc = "save_best" /\ validate /\ save_best_dev /\ HasBestEval) =>
        IF accuracy > best_accuracy
        THEN /\ saved' = Append(saved, epoch)
             /\ Count(calls', "save_model") = Count(calls, "save_model") + 1
             /\ best_accuracy' = accuracy
        ELSE /\ saved' = saved
             /\ Count(calls', "save_model") = Count(calls, "save_model")
             /\ best_accuracy' = best_accuracy]_vars

\* A tie at a running best above 0.0 was not saved, after an earlier save.
C4_Witness ==
    /\ validate
    /\ save_best_dev
    /\ trainer = POSTrainerCls
    /\ pc = "done"
    /\ accs = <<1, 1>>
    /\ saved = <<1>>
    /\ best_accuracy = 1

TwoEpochRunImproving ==
    /\ pc = "done"
    /\ n_epochs = 2
    /\ validate
    /\ save_best_dev
    /\ HasBestEval
    /\ Len(accs) = 2
    /\ accs[2] > accs[1]

\* C5 as stated: in a two-epoch run with validate and save_best_dev whose
\* epoch-2 accuracy is greater than its epoch-1 accuracy, save_model is
\* invoked exactly once, after epoch 2.
C5_SavedOnceAfterEpoch2 == TwoEpochRunImproving => (saved = <<2>>)

\* C5 amended: in such a run started with the running best at 0.0 (a new
\* POSTrainer), save_model is invoked after epoch 2; that is the only
\* invocation when the epoch-1 accuracy is 0.0, and otherwise save_model is
\* invoked twice, after epoch 1 and after epoch 2.
C5_SavedAfterEpoch2 ==
    (TwoEpochRunImproving /\ best0 = 0) =>
        (saved = IF accs[1] > 0 THEN <<1, 2>> ELSE <<2>>)

C5_Witness ==
    /\ TwoEpochRunImproving
    /\ best0 = 0
    /\ trainer = POSTrainerCls
    /\ accs = <<0, 2>>
    /\ saved = <<2>>

\* C6: with validate true and the loaded dev set None, train() aborts at the
\* first validation point: validator.test and save_model are never called,
\* the run never completes, and no step of a second epoch is executed.
C6_AbortOnMissingDev ==
    (run >= 1 /\ validate /\ data_dev = None) =>
        /\ Count(calls, "validator.test") = 0
        /\ Count(calls, "save_model") = 0
        /\ pc \notin {"save_best", "done"}
        /\ epoch <= 1
        /\ Count(calls, "mode") <= 1
        /\ \A h \in StepCalls : Count(calls, h) <= iterations
        /\ (err = "RuntimeError") =>
              /\ pc = "aborted"
              /\ Count(calls, "update") = iterations

C6_Witness ==
    /\ validate
    /\ data_dev = None
    /\ pc = "aborted"
    /\ err = "RuntimeError"
    /\ n_epochs = 2
    /\ save_best_dev
    /\ Count(calls, "update") = 2

MandatoryHooks ==
    {"mode", "define_optimizer", "data_forward", "grad_backward", "update",
     "define_loss"}

\* C7: a mandatory hook the concrete trainer does not override fails with
\* NotImplementedError at its first invocation: it is the last method the run
\* invokes, it is invoked once, and no save_model call is made.
C7_UnimplementedHookAborts ==
    \A h \in MandatoryHooks :
        (h \notin trainer.overrides /\ Count(calls, h) > 0) =>
            /\ pc = "aborted"
            /\ err = "NotImplementedError"
            /\ Last(calls) = h
            /\ Count(calls, h) = 1
            /\ Count(calls, "save_model") = 0

C7_Witness ==
    /\ trainer = Subclass(AbstractHooks \ {"update"})
    /\ Count(calls, "update") = 1
    /\ Count(calls, "grad_backward") = 1
    /\ pc = "aborted"
    /\ validate
    /\ save_best_dev

\* C8: within an epoch each training step consumes one batch of exactly B
\* sample indices of 0..N-1, no index is used by two steps, and when the
\* steps of the epoch are over floor(N / B) batches were consumed and exactly
\* N mod B indices are left unused.
C8_BatchesOfEpoch ==
    LET N == Len(data_train)
    IN  (pc \in StepCalls \cup {"validate"}) =>
            /\ \A k \in DOMAIN drawn :
                  /\ Len(drawn[k]) = batch0
                  /\ \A i \in DOMAIN drawn[k] : drawn[k][i] \in 0..(N - 1)
            /\ Cardinality(Used) = Len(drawn) * batch0
            /\ N % batch0 <= batch0 - 1
            /\ (pc = "validate") =>
                  /\ Len(drawn) = N \div batch0
                  /\ Cardinality((0..(N - 1)) \ Used) = N % batch0

C8_Witness ==
    /\ pc = "validate"
    /\ epoch = 2
    /\ Len(data_train) = 2
    /\ batch0 = 1
    /\ drawn = <<<<1>>, <<0>>>>

\* The loss function get_loss binds for a model: the model's own loss when it
\* has one, otherwise what define_loss assigns.
LossFor(net) ==
    IF net.hasLoss
    THEN Some([src |-> "model.loss", net |-> net.id])
    ELSE Some([src |-> "define_loss", net |-> 0])

\* C11: the loss function is bound lazily and once per run: loss_func is
\* unset until the first get_loss call of the run, and from that call on it
\* is the loss of the run's model if the model has one, otherwise the one
\* define_loss supplies.
C11_LossBoundOncePerRun ==
    (run >= 1 /\ model # None /\ trainer.name # "ToyTrainer") =>
        IF Count(calls, "get_loss") = 0
        THEN loss_func = None
        ELSE \/ loss_func = LossFor(model[1])
             \/ /\ Last(calls) = "define_loss"
                /\ err = "NotImplementedError"
                /\ loss_func = None

\* C12: the training configuration (epochs, batch_size, validate,
\* save_best_dev, pickle_path, model_saved_path) holds, at every point of a
\* run, the values it had when the run started.
C12_ConfigUnchanged == (run >= 1) => (Config = config0)

C12_Witness ==
    /\ trainer = POSTrainerCls
    /\ pc = "done"
    /\ Count(calls, "data_forward") = 2
    /\ max_len = Some(3)
    /\ Config = config0

StepCycle == <<"batchify", "data_forward", "get_loss", "grad_backward", "update">>

IsStepCall(c) == c \in StepCalls

StepTrace == SelectSeq(calls, IsStepCall)

InStep == pc \in {"data_forward", "get_loss", "grad_backward", "update"}

\* C13: the operations of the training steps occur in the order batchify,
\* data_forward, get_loss, grad_backward, update, each once per step; there
\* is one update per drawn batch, and the batch in work is the latest drawn.
C13_StepOrder ==
    (run >= 1) =>
        /\ \A i \in DOMAIN StepTrace : StepTrace[i] = StepCycle[((i - 1) % 5) + 1]
        /\ (pc \in StepCalls \cup {"validate"}) =>
              Len(drawn) = step + (IF InStep THEN 1 ELSE 0)
        /\ InStep =>
              batch_y = [i \in 1..Len(Last(drawn)) |->
                            data_train[Last(drawn)[i] + 1].y]

C13_Witness ==
    /\ pc = "done"
    /\ Len(StepTrace) = 10
    /\ n_epochs = 1
    /\ StepTrace[9] = "grad_backward"
    /\ StepTrace[10] = "update"

EpochStarted == pc \in StepCalls \cup {"validate", "save_best"}

\* C14: every epoch starts with mode(test=False), then define_optimizer, then
\* a fresh batch iterator, each once per epoch and before any step of the
\* epoch; at every training step the latest mode switch of the loop is
\* training mode, also after a validation.
C14_EpochStart ==
    (run >= 1) =>
        /\ \A i \in DOMAIN calls :
              /\ (calls[i] = "define_optimizer") => (i > 1 /\ calls[i - 1] = "mode")
              /\ (calls[i] = "Batchifier") =>
                    (i > 1 /\ calls[i - 1] = "define_optimizer")
              /\ (calls[i] = "batchify") =>
                    (i > 1 /\ calls[i - 1] \in {"Batchifier", "update"})
        /\ (EpochStarted \/ pc = "done") =>
              /\ Count(calls, "mode") = epoch
              /\ Count(calls, "define_optimizer") = epoch
              /\ Count(calls, "Batchifier") = epoch
        /\ (pc \in StepCalls) => (last_mode = Some(FALSE))

C14_Witness ==
    /\ pc = "batchify"
    /\ epoch = 2
    /\ validate
    /\ Count(calls, "validator.test") = 1
    /\ Count(calls, "mode") = 2
    /\ last_mode = Some(FALSE)

\* C15: with validate true and a dev set present, validator.test is invoked
\* once per epoch, after the last training step of the epoch and before the
\* first step of the next (E calls in a completed E-epoch run), and every
\* save_model call follows the validator.test call of its epoch.
C15_ValidationPerEpoch ==
    (run >= 1 /\ validate /\ data_dev # None) =>
        /\ (pc \in {"mode", "define_optimizer", "iterator", "validate"} \cup StepCalls)
              => (Count(calls, "validator.test") = epoch - 1)
        /\ (pc = "save_best") =>
              /\ Count(calls, "validator.test") = epoch
              /\ Count(calls, "update") = epoch * iterations
              /\ Last(calls) = "validator.test"
        /\ (pc = "done") => (Count(calls, "validator.test") = n_epochs)
        /\ \A i \in DOMAIN calls :
              /\ (calls[i] = "validator.test") =>
                    /\ calls[i - 1] \in {"update", "Batchifier"}
                    /\ (calls[i - 1] = "Batchifier") => (iterations = 0)
                    /\ (i < Len(calls)) =>
                          (calls[i + 1] \in {"best_eval_result", "show_matrices"})
              /\ (calls[i] = "save_model") =>
                    /\ calls[i - 1] = "best_eval_result"
                    /\ calls[i - 2] = "validator.test"

C15_Witness ==
    /\ pc = "done"
    /\ validate
    /\ n_epochs = 2
    /\ iterations = 2
    /\ Count(calls, "validator.test") = 2
    /\ saved = <<1, 2>>

\* C16: a batch returned by batchify has as many batch_x as batch_y entries,
\* one per drawn index and in the order drawn: batch_y[i] is the label of the
\* sample at the i-th index and batch_x[i] starts with its feature-sequence.
C16_BatchAligned ==
    InStep =>
        LET indices == Last(drawn)
        IN  /\ Len(batch_x) = Len(indices)
            /\ Len(batch_y) = Len(indices)
            /\ \A i \in 1..Len(indices) :
                  LET sample == pickles.train[indices[i] + 1]
                  IN  /\ batch_y[i] = sample.y
                      /\ Len(batch_x[i]) >= Len(sample.x)
                      /\ SubSeq(batch_x[i], 1, Len(sample.x)) = sample.x

C16_Witness ==
    /\ InStep
    /\ drawn = <<<<1, 0>>>>
    /\ batch_x = <<<<2, 2, 2>>, <<1, 0>>>>
    /\ batch_y = <<1, 0>>

\* C17: batching and padding never modify the dataset: at every point of a
\* run, after any number of batchify calls and across epochs, every sample of
\* the training data has the feature-sequence and the label it was loaded
\* with.
C17_DatasetUnchanged ==
    (run >= 1 /\ err # "TypeError") => (data_train = pickles.train)

C17_Witness ==
    /\ InStep
    /\ epoch = 2
    /\ drawn = <<<<1, 0>>>>
    /\ batch_x = <<<<2, 2, 2>>, <<1, 0>>>>
    /\ data_train = pickles.train

BestTracked == validate /\ save_best_dev /\ HasBestEval

\* The epochs of this run whose accuracy best_eval_result has been given.
Compared == 1..(Len(accs) - (IF pc = "save_best" THEN 1 ELSE 0))

\* C18: with validate and save_best_dev on a trainer with POSTrainer's
\* best_eval_result, the running best is the maximum of 0.0 and all the
\* accuracies compared so far (hist_max, which never decreases); the latest
\* save of a run is from the earliest epoch that reached that maximum; a run
\* without a save has no accuracy above the best it started with; and while
\* no accuracy exceeds 0.0 no model is persisted.
C18_RunningBestIsMaximum ==
    BestTracked =>
        /\ best_accuracy = hist_max
        /\ best_accuracy >= best0
        /\ best0 >= 0
        /\ (saved # << >>) =>
              /\ Last(saved) \in Compared
              /\ accs[Last(saved)] = best_accuracy
              /\ \A j \in Compared :
                    /\ accs[j] <= best_accuracy
                    /\ (j < Last(saved)) => (accs[j] < best_accuracy)
              /\ best_accuracy > best0
        /\ (saved = << >>) =>
              /\ best_accuracy = best0
              /\ \A j \in Compared : accs[j] <= best0
        /\ ever_saved <=> (hist_max > 0)

C18_Witness ==
    /\ BestTracked
    /\ trainer = POSTrainerCls
    /\ pc = "done"
    /\ run = 2
    /\ best0 = 1
    /\ accs = <<2, 2>>
    /\ saved = <<1>>
    /\ best_accuracy = 2

\* C19: inside train() the batch iterator is never asked for a batch after
\* it is exhausted or while it is unset: it is rebuilt before the first draw
\* of each epoch, and the draws of an epoch are exactly the batches it
\* produces.
C19_IteratorNeverExhausted ==
    (run >= 1) =>
        /\ err # "StopIteration"
        /\ (pc = "batchify") =>
              /\ iterator # None
              /\ iterator[1] # << >>
              /\ Count(calls, "Batchifier") = epoch
        /\ (pc \in StepCalls \cup {"validate"}) =>
              /\ iterator # None
              /\ Len(drawn) + Len(iterator[1]) = Len(data_train) \div batch0
        /\ (pc = "validate") =>
              /\ iterator[1] = << >>
              /\ Len(drawn) = iterations

C19_Witness ==
    /\ trainer = POSTrainerCls
    /\ pc = "validate"
    /\ epoch = 2
    /\ Len(drawn) = 2
    /\ iterator = Some(<< >>)

\* C20: the running best is set at construction and train() does not reset
\* it: a run starts from the best the previous run ended with, and persists
\* a model only for an accuracy strictly above that best.
C20_BestCarriedAcrossRuns ==
    /\ (run <= 1) => (best0 = 0)
    /\ (run >= 1 /\ epoch = 1 /\ pc = "mode") => (best_accuracy = best0)
    /\ (run >= 1) => (best_accuracy >= best0)
    /\ \A k \in DOMAIN saved : accs[saved[k]] > best0

C20_Witness ==
    /\ trainer = POSTrainerCls
    /\ run = 2
    /\ pc = "done"
    /\ best0 = 1
    /\ accs = <<1, 2>>
    /\ saved = <<2>>

====
